---- MODULE Spec2Model ----
(***************************************************************************)
(* Formal model of the live synchronisation core of spacetime-panel:       *)
(*   - the Redux slice that holds the session fields and the table mirrors *)
(*     (src/src/store/spacetime-slice.ts),                                  *)
(*   - the connection state machine of the useSpacetimeDB hook             *)
(*     (src/unnamed/part_003) with its ref flags (src/unnamed/part_002),   *)
(*   - the table handlers that keep the mirrors fresh                      *)
(*     (src/src/hooks/spacetime/use-table-handlers.ts).                    *)
(* The SpacetimeDB SDK, the browser timers and the host (the UI) are the   *)
(* environment: their choices are nondeterministic.                        *)
(***************************************************************************)
EXTENDS Integers, Sequences, FiniteSets, TLC

\* ------------------------------------------------------------------ bounds
\* Number of connect() runs that pass the guard (each gets an attempt id).
MaxAttempts == 3
\* Longest mirror a notification stream of the slice specification builds.
MaxRows == 2
\* Sessions that hold a subscription (pending or applied) at the same time.
MaxSubscribed == 1
\* Fields of a reducer and entries of an argument bag.
MaxFields == 2
MaxBagLen == 2
\* Calls of analyzeAlgebraicType on one analyzer.
MaxCalls == 2
\* Symbols of the generated module that the discovery returns.
MaxSymbols == 3
\* Calls of discoverTables() / discoverReducers() on the introspector.
MaxRuns == 2
\* Host callbacks registered at a time.
MaxCallbacks == 2
\* The step of the clock, in milliseconds.
TickMs == 500

\* ----------------------------------------------------- program constants
\* spacetimeConfig.maxRetries: configurable 1..10; the model runs the
\* smallest permitted budget so that the terminal branch is reached.
maxRetries == 1
\* spacetimeConfig.retryBackoffMultiplier (default).
retryBackoffMultiplier == 2
\* spacetimeConfig.subscriptionDelay (default), milliseconds.
subscriptionDelay == 500
\* Grace window after which disconnect() clears the intentional flag.
IntentionalGraceMs == 1000

\* ------------------------------------------------------------------ state
VARIABLES
  connectionStatus,         \* store: "disconnected"|"connecting"|"connected"|"error"
  connection,               \* store: attempt id of the DbConnection, 0 = null
  identity,                 \* store: identity hex string, "" = null
  error,                    \* store: last error, ErrNone = null
  tables,                   \* store: [table name -> mirror], the dynamic keys
  isConnecting,             \* connectionStateRef.current.isConnecting
  isIntentionalDisconnect,  \* connectionStateRef.current.isIntentionalDisconnect
  storedToken,              \* localStorage["spacetimedb_token"], "" = absent
  sessions,                 \* SDK: one record per connect attempt
  handleRows,               \* SDK: client cache behind ctx.db[table].iter()
  timers,                   \* browser: pending setTimeout callbacks
  nextId,                   \* attempt ids handed out so far
  intentSetAt,              \* history: nextId when the flag was last set
  replay,                   \* history: keyed replay of the slice operations
  wellFormed,               \* history: the slice stream so far is key-consistent
  marshalling,              \* a createOrderedArgs() application: inputs and result
  invocation,               \* the callReducer() call under way or just finished
  typeCache,                \* TypeAnalyzer.typeCache: the cache keys it holds
  analysis,                 \* the last analyzeAlgebraicType() call and its result
  discovery,                \* the last discoverTables()/discoverReducers() run
  attach                    \* setupTableHandlers(): outcome, handlers, host callbacks

storeVars == <<connectionStatus, connection, identity, error, tables>>
refVars == <<isConnecting, isIntentionalDisconnect>>
sdkVars == <<storedToken, sessions, handleRows, timers, nextId, intentSetAt>>
foldVars == <<replay, wellFormed>>
toolVars == <<marshalling, invocation, typeCache, analysis, discovery, attach>>
vars == <<storeVars, refVars, sdkVars, foldVars, toolVars>>

\* ----------------------------------------------------------------- values
\* A JavaScript value: t is its kind, v its payload. For strings f is the
\* format the payload is written in ("txt", "dec", "iso", "hex"); for
\* objects f is the name of the object's single own property and v that
\* property's (numeric) value.
Val(t, f, v) == [t |-> t, f |-> f, v |-> v]
Num(n) == Val("number", "-", n)
Str(n) == Val("string", "txt", n)
BigInt(n) == Val("bigint", "-", n)
Timestamp(micros) == Val("timestamp", "-", micros)
Obj(prop, n) == Val("object", prop, n)
JsNull == Val("null", "-", 0)
Undefined == Val("undefined", "-", 0)

\* typeof x === "object": plain objects and null.
TypeofObject(x) == x.t \in {"object", "null"}

\* x[name] of a value; reading a property of null or undefined throws.
Throws(x) == x.t \in {"null", "undefined"}
Prop(x, name) == IF x.t = "object" /\ x.f = name THEN Num(x.v) ELSE Undefined

TableNames == {"user", "auth_event"}
PrimaryKeyOf(t) == "id"

\* ------------------------------------------------------- serialization.ts
serializeForRedux(d) ==
  CASE d.t = "bigint" -> Val("string", "dec", d.v)
    [] d.t = "date" -> Val("string", "iso", d.v)
    [] d.t = "timestamp" -> Val("string", "iso", d.v \div 1000)
    [] d.t = "identity" -> Val("string", "hex", d.v)
    [] OTHER -> d

serializeRow(r) == [id |-> serializeForRedux(r.id), val |-> serializeForRedux(r.val)]

processTableDataForRedux(rows) == [i \in 1..Len(rows) |-> serializeRow(rows[i])]

\* ------------------------------------------------------ spacetime-slice.ts
NoTable == [present |-> FALSE, rows |-> <<>>]
Table(rows) == [present |-> TRUE, rows |-> rows]

ErrNone == [kind |-> "none", attempts |-> 0, msg |-> ""]

\* comparePrimaryKeys(a, b, primaryKey); the caller checks Throws first.
comparePrimaryKeys(a, b, primaryKey) ==
  IF TypeofObject(a) /\ TypeofObject(b)
    THEN Prop(a, primaryKey) = Prop(b, primaryKey)
    ELSE a = b

\* The comparison of one item raises a TypeError (property read of null).
CompareThrows(a, b) == TypeofObject(a) /\ TypeofObject(b) /\ (Throws(a) \/ Throws(b))

\* item[primaryKey] of a row.
RowField(item, primaryKey) ==
  IF primaryKey = "id" THEN item.id ELSE IF primaryKey = "val" THEN item.val ELSE Undefined

\* Array.prototype.findIndex with the comparePrimaryKeys predicate:
\* the 1-based index of the first match, 0 when none matches (-1 in the
\* code), -1 when a comparison throws before a match is found.
RECURSIVE FindFrom(_, _, _, _)
FindFrom(rows, i, primaryKey, primaryValue) ==
  IF i > Len(rows) THEN 0
  ELSE IF CompareThrows(RowField(rows[i], primaryKey), primaryValue) THEN -1
  ELSE IF comparePrimaryKeys(RowField(rows[i], primaryKey), primaryValue, primaryKey) THEN i
  ELSE FindFrom(rows, i + 1, primaryKey, primaryValue)

findIndex(rows, primaryKey, primaryValue) == FindFrom(rows, 1, primaryKey, primaryValue)

RemoveAt(s, i) == [j \in 1..(Len(s) - 1) |-> IF j < i THEN s[j] ELSE s[j + 1]]

\* clearAllTables as a reducer that forgets to delete the table keys.
clearAllTables_Keep(tb) == tb

clearAllTables(tb) == [t \in TableNames |-> NoTable]

initializeTable(tb, t) == IF ~tb[t].present THEN [tb EXCEPT ![t] = Table(<<>>)] ELSE tb

setTableData(tb, t, data) == [tb EXCEPT ![t] = Table(data)]

insertTableRow(tb, t, row) ==
  IF tb[t].present THEN [tb EXCEPT ![t].rows = Append(@, row)] ELSE tb

\* updateTableRow as an upsert: the row is appended when no row matches.
updateTableRow_Upsert(tb, t, primaryKey, primaryValue, row) ==
  IF tb[t].present
    THEN LET index == findIndex(tb[t].rows, primaryKey, primaryValue)
         IN IF index > 0 THEN [tb EXCEPT ![t].rows[index] = row]
            ELSE [tb EXCEPT ![t].rows = Append(@, row)]
    ELSE tb

updateTableRow(tb, t, primaryKey, primaryValue, row) ==
  IF tb[t].present
    THEN LET index == findIndex(tb[t].rows, primaryKey, primaryValue)
         IN IF index > 0 THEN [tb EXCEPT ![t].rows[index] = row] ELSE tb
    ELSE tb

deleteTableRow(tb, t, primaryKey, primaryValue) ==
  IF tb[t].present
    THEN LET index == findIndex(tb[t].rows, primaryKey, primaryValue)
         IN IF index > 0 THEN [tb EXCEPT ![t].rows = RemoveAt(@, index)] ELSE tb
    ELSE tb

\* ------------------------------------------------- environment domains
Identities == {"idA"}
Tokens == {"t1", "t2"}
\* What localStorage may hold when the page loads.
StoredAtStart == {"", "t1"}
ErrorMessages == {"E"}
AttemptIds == 1..MaxAttempts

\* Rows the backend serves (raw SDK values: 64-bit ids, timestamps).
RawRows == { [id |-> BigInt(1), val |-> Str(1)],
             [id |-> BigInt(1), val |-> Timestamp(2500)] }
\* The rows a subscription delivers when it is applied.
InitialRows == { <<>>, << [id |-> BigInt(1), val |-> Str(1)] >> }

ErrRaw(msg) == [kind |-> "raw", attempts |-> 0, msg |-> msg]
ErrTerminal(msg) == [kind |-> "terminal", attempts |-> maxRetries, msg |-> msg]
\* onError of the subscription that dispatches no error.
ErrSubscription_Unreported(msg) == ErrNone
ErrSubscription(msg) == [kind |-> "subscription", attempts |-> 0, msg |-> msg]
ErrSetup(msg) == [kind |-> "setup", attempts |-> 0, msg |-> msg]

\* A session of the SDK: token is the token the builder was given while the
\* handshake is in flight, and the token onConnect received once it is open.
NoSession == [st |-> "unused", retryCount |-> 0, sub |-> "none", token |-> ""]
\* A session the SDK is done with (handshake failed, build threw, closed).
Ended == [st |-> "ended", retryCount |-> 0, sub |-> "none", token |-> ""]
\* Its handshake failure was observed under the intentional flag.
Suppressed == [st |-> "suppressed", retryCount |-> 0, sub |-> "none", token |-> ""]
\* disconnect() was called on it; its onDisconnect is still to come.
Closing == [st |-> "closing", retryCount |-> 0, sub |-> "none", token |-> ""]
EmptyHandle == [t \in TableNames |-> <<>>]

\* A pending setTimeout callback: by is the attempt that scheduled it,
\* attempt the retryCount a retry passes to connect(), isConnected the
\* isConnected captured by the closure that will run. sawDisconnect is
\* history: disconnect() ran while the retry was pending and the host has
\* not called connect() since.
Timer(kind, by, attempt, delay, closure) ==
  [kind |-> kind, by |-> by, attempt |-> attempt, delay |-> delay, isConnected |-> closure,
   sawDisconnect |-> FALSE]

MarkDisconnect(tmrs) ==
  {IF tm.kind = "retry" THEN [tm EXCEPT !.sawDisconnect = TRUE] ELSE tm : tm \in tmrs}
ClearMarks(tmrs) == {[tm EXCEPT !.sawDisconnect = FALSE] : tm \in tmrs}

\* ---------------------------------------------------------------- Init
InitStore ==
  /\ connectionStatus = "disconnected"
  /\ connection = 0
  /\ identity = ""
  /\ error = ErrNone
  /\ tables = [t \in TableNames |-> NoTable]
  /\ isConnecting = FALSE
  /\ isIntentionalDisconnect = FALSE
  /\ sessions = [i \in AttemptIds |-> NoSession]
  /\ handleRows = [i \in AttemptIds |-> EmptyHandle]
  /\ timers = {}
  /\ nextId = 0
  /\ intentSetAt = 0
  /\ replay = [t \in TableNames |-> [seeded |-> FALSE, coll |-> {}, lastOp |-> "none"]]
  /\ wellFormed = [t \in TableNames |-> TRUE]

InitSession ==
  /\ InitStore
  /\ storedToken \in StoredAtStart

\* Nothing has been marshalled, invoked, analyzed or discovered yet.
NoMarshalling == [phase |-> "idle", fields |-> <<>>, args |-> <<>>, threw |-> FALSE, list |-> <<>>]
NoInvocation ==
  [phase |-> "idle", hasConnection |-> FALSE, discoveredReducers |-> <<>>,
   reducers |-> <<>>, reducerName |-> <<>>, args |-> <<>>, raised |-> "none",
   outcome |-> "pending", error |-> "none", logged |-> FALSE, calls |-> 0, sent |-> <<>>]
NoAnalysis ==
  [phase |-> "idle", type |-> [kind |-> "none", tag |-> "", parts |-> <<>>], name |-> "",
   fields |-> <<>>, hit |-> FALSE, calls |-> 0, returned |-> {}]
NoDiscovery ==
  [phase |-> "idle", kind |-> "tables", symbols |-> <<>>, catalog |-> <<>>, warned |-> {},
   raised |-> FALSE, runs |-> 0, previous |-> <<>>]

NoAttach ==
  [phase |-> "idle", outcome |-> [t \in TableNames |-> "ok"], registered |-> {},
   logged |-> {}, raised |-> FALSE, callbacks |-> [n \in {} |-> "f"],
   last |-> [table |-> "", kind |-> "", args |-> <<>>, calls |-> <<>>]]

InitTools ==
  /\ attach = NoAttach
  /\ marshalling = NoMarshalling
  /\ invocation = NoInvocation
  /\ typeCache = <<>>
  /\ analysis = NoAnalysis
  /\ discovery = NoDiscovery

Init ==
  /\ InitSession
  /\ InitTools

\* ------------------------------------------- connection state machine
\* RetryDelay as a backoff that forgets the first step would compute it.
RetryDelay_FromZero(retryCount) == retryBackoffMultiplier * 1000 * retryCount

\* retryDelay of onConnectError and of the catch branch.
RetryDelay(retryCount) == retryBackoffMultiplier * 1000 * (retryCount + 1)

\* A retry test that never gives up.
ShouldRetry_Always(retryCount) == TRUE

\* retryCount < spacetimeConfig.maxRetries
ShouldRetry(retryCount) == retryCount < maxRetries

\* The guard of connect(): the ref flag, or the isConnected of the render
\* whose closure is running.
ConnectReturnsEarly(closureIsConnected) == isConnecting \/ closureIsConnected

\* The catch branch of connect(), entered when opening the session throws.
\* intentional is isIntentionalDisconnect() as the branch reads it.
CatchBranch(id, retryCount, closureIsConnected, intentional, msg, tmrs) ==
  IF ~intentional
    THEN /\ isConnecting' = FALSE
         /\ isIntentionalDisconnect' = intentional
         /\ IF ShouldRetry(retryCount)
              THEN /\ timers' = tmrs \cup
                        {Timer("retry", id, retryCount + 1, RetryDelay(retryCount),
                               closureIsConnected)}
                   /\ error' = ErrNone
                   /\ connectionStatus' = "connecting"
              ELSE /\ timers' = tmrs
                   /\ error' = ErrTerminal(msg)
                   /\ connectionStatus' = "error"
    ELSE /\ isConnecting' = FALSE
         /\ isIntentionalDisconnect' = FALSE
         /\ connectionStatus' = "disconnected"
         /\ error' = ErrNone
         /\ timers' = tmrs

\* connect(retryCount) run by a closure whose isConnected is
\* closureIsConnected; tmrs are the timers left pending by the caller.
connect(retryCount, closureIsConnected, tmrs) ==
  IF ConnectReturnsEarly(closureIsConnected)
    THEN /\ timers' = tmrs
         /\ UNCHANGED <<storeVars, refVars, storedToken, sessions, handleRows,
                        nextId, intentSetAt>>
    ELSE /\ nextId < MaxAttempts
         /\ nextId' = nextId + 1
         /\ intentSetAt' = 0
         /\ UNCHANGED <<connection, identity, tables, storedToken, handleRows>>
         /\ \/ \* build() returns: the handshake is in flight
               /\ isConnecting' = TRUE
               /\ isIntentionalDisconnect' = FALSE
               /\ connectionStatus' = "connecting"
               /\ error' = ErrNone
               /\ timers' = tmrs
               /\ sessions' = [sessions EXCEPT ![nextId + 1] =
                    [st |-> "handshaking", retryCount |-> retryCount,
                     sub |-> "none", token |-> storedToken]]
            \/ \* reading the token or building the connection throws
               /\ \E msg \in ErrorMessages :
                    CatchBranch(nextId + 1, retryCount, closureIsConnected, FALSE, msg, tmrs)
               /\ sessions' = [sessions EXCEPT ![nextId + 1] = Ended]

\* The host calls connect(); its closure is the one of the latest render.
HostConnect ==
  /\ connect(0, connectionStatus = "connected",
             IF ConnectReturnsEarly(connectionStatus = "connected")
               THEN timers ELSE ClearMarks(timers))
  /\ UNCHANGED <<foldVars, toolVars>>

\* A retry timer fires: connect(retryCount + 1) of the closure that
\* scheduled it.
RetryTimerFires ==
  \E tm \in timers :
    /\ tm.kind = "retry"
    /\ connect(tm.attempt, tm.isConnected, timers \ {tm})
    /\ UNCHANGED <<foldVars, toolVars>>

\* onConnect that never writes the token.
PersistToken_Never(receivedToken, stored) == stored

\* if (receivedToken) localStorage.setItem("spacetimedb_token", receivedToken):
\* the stored token after onConnect.
PersistToken(receivedToken, stored) ==
  IF receivedToken # "" THEN receivedToken ELSE stored

\* onConnect(conn, identity, receivedToken)
HandshakeSucceeds ==
  \E s \in AttemptIds, ident \in Identities, receivedToken \in {""} \cup Tokens :
    /\ sessions[s].st = "handshaking"
    /\ storedToken' = PersistToken(receivedToken, storedToken)
    /\ identity' = ident
    /\ connectionStatus' = "connected"
    /\ connection' = s
    /\ isConnecting' = FALSE
    /\ timers' = timers \cup {Timer("settle", s, 0, subscriptionDelay, FALSE)}
    /\ sessions' = [sessions EXCEPT ![s] = [NoSession EXCEPT !.st = "open", !.token = receivedToken]]
    /\ UNCHANGED <<error, tables, isIntentionalDisconnect, handleRows, nextId,
                   intentSetAt, foldVars, toolVars>>

\* The test of onConnectError that suppresses the retry:
\* connectionState.isIntentionalDisconnect().
RetrySuppressed_Never == FALSE
RetrySuppressed == isIntentionalDisconnect

\* onConnectError(ctx, error) of attempt s, error.message being msg.
onConnectError(s, msg) ==
  /\ sessions[s].st = "handshaking"
  /\ sessions' = [sessions EXCEPT ![s] = IF RetrySuppressed THEN Suppressed ELSE Ended]
  /\ IF ~RetrySuppressed
       THEN /\ isConnecting' = FALSE
            /\ UNCHANGED <<isIntentionalDisconnect, intentSetAt>>
            /\ connectionStatus' = "error"
            /\ IF ShouldRetry(sessions[s].retryCount)
                 THEN /\ error' = ErrRaw(msg)
                      /\ timers' = timers \cup
                           {Timer("retry", s, sessions[s].retryCount + 1,
                                  RetryDelay(sessions[s].retryCount), FALSE)}
                 ELSE /\ error' = ErrTerminal(msg)
                      /\ timers' = timers
       ELSE /\ isConnecting' = FALSE
            /\ isIntentionalDisconnect' = FALSE
            /\ intentSetAt' = 0
            /\ connectionStatus' = "disconnected"
            /\ UNCHANGED <<error, timers>>
  /\ UNCHANGED <<connection, identity, tables, storedToken, handleRows, nextId, foldVars, toolVars>>

\* The handshake of an attempt fails.
HandshakeFails ==
  \E s \in AttemptIds, msg \in ErrorMessages : onConnectError(s, msg)

\* onDisconnect(ctx, error): the SDK reports that the session has ended.
SessionEnds ==
  \E s \in AttemptIds :
    /\ sessions[s].st \in {"open", "closing"}
    /\ sessions' = [sessions EXCEPT ![s] = Ended]
    /\ handleRows' = [handleRows EXCEPT ![s] = EmptyHandle]
    /\ isConnecting' = FALSE
    /\ connectionStatus' = "disconnected"
    /\ connection' = 0
    /\ tables' = clearAllTables(tables)
    /\ UNCHANGED <<identity, error, isIntentionalDisconnect, storedToken, timers,
                   nextId, intentSetAt, foldVars, toolVars>>

\* disconnect() of the latest render.
HostDisconnect ==
  /\ IF connection # 0
       THEN /\ isIntentionalDisconnect' = TRUE
            /\ intentSetAt' = nextId
            /\ isConnecting' = FALSE
            /\ sessions' = [sessions EXCEPT ![connection] =
                 IF @.st = "open" THEN Closing ELSE @]
            /\ handleRows' = [handleRows EXCEPT ![connection] = EmptyHandle]
            /\ connectionStatus' = "disconnected"
            /\ connection' = 0
            /\ tables' = clearAllTables(tables)
            /\ timers' = MarkDisconnect(timers) \cup
                 {Timer("clearIntent", connection, 0, IntentionalGraceMs, FALSE)}
       ELSE UNCHANGED <<isIntentionalDisconnect, intentSetAt, isConnecting, sessions,
                        handleRows, connectionStatus, connection, tables, timers>>
  /\ UNCHANGED <<identity, error, storedToken, nextId, foldVars, toolVars>>

\* The timer of disconnect() fires: the intentional flag is cleared.
IntentTimerFires ==
  \E tm \in timers :
    /\ tm.kind = "clearIntent"
    /\ timers' = timers \ {tm}
    /\ isIntentionalDisconnect' = FALSE
    /\ intentSetAt' = 0
    /\ UNCHANGED <<storeVars, isConnecting, storedToken, sessions, handleRows, nextId,
                   foldVars, toolVars>>

\* ------------------------------------------ subscription / mirror engine
\* setupTableHandlers(ctx): every discovered table is seeded from its
\* handle; the handlers registered here are the TableNotification action.
setupTableHandlers(tb, rowsOf) ==
  [t \in TableNames |-> Table(processTableDataForRedux(rowsOf[t]))]

\* updateTableData storing the rows of the handle without serializing them.
updateTableData_Raw(tb, t, rowsOf) == setTableData(tb, t, rowsOf[t])

\* updateTableData(eventCtx, tableName, ...): the mirror of the table is
\* replaced by the serialized rows the handle holds now.
updateTableData(tb, t, rowsOf) == setTableData(tb, t, processTableDataForRedux(rowsOf[t]))

\* The settle timer of onConnect fires: setupSubscriptions(conn). The SDK
\* either accepts the subscription, or the call throws (catch branch), or,
\* on a session that has ended, the request is silently dropped.
SettleTimerFires ==
  \E tm \in timers, outcome \in {"subscribed", "throws", "dropped"}, msg \in ErrorMessages :
    /\ tm.kind = "settle"
    /\ timers' = timers \ {tm}
    /\ outcome = "subscribed" =>
         /\ sessions[tm.by].st = "open"
         /\ Cardinality({x \in AttemptIds : sessions[x].sub \in {"pending", "applied"}})
              < MaxSubscribed
    /\ outcome = "dropped" => sessions[tm.by].st # "open"
    /\ CASE outcome = "subscribed" ->
              /\ sessions' = [sessions EXCEPT ![tm.by].sub = "pending"]
              /\ UNCHANGED <<error, connectionStatus>>
         [] outcome = "throws" ->
              /\ error' = ErrSetup(msg)
              /\ connectionStatus' = "error"
              /\ UNCHANGED sessions
         [] OTHER -> UNCHANGED <<error, connectionStatus, sessions>>
    /\ UNCHANGED <<connection, identity, tables, refVars, storedToken, handleRows, nextId,
                   intentSetAt, foldVars, toolVars>>

\* onApplied(ctx): the subscription is applied with the initial rows.
SubscriptionApplied ==
  \E s \in AttemptIds, rowsOf \in [TableNames -> InitialRows] :
    /\ sessions[s].st = "open"
    /\ sessions[s].sub = "pending"
    /\ sessions' = [sessions EXCEPT ![s].sub = "applied"]
    /\ handleRows' = [handleRows EXCEPT ![s] = rowsOf]
    /\ tables' = setupTableHandlers(tables, rowsOf)
    /\ UNCHANGED <<connectionStatus, connection, identity, error, refVars, storedToken,
                   timers, nextId, intentSetAt, foldVars, toolVars>>

\* onError(ctx, error) of the subscription.
SubscriptionFails ==
  \E s \in AttemptIds, msg \in ErrorMessages :
    /\ sessions[s].st = "open"
    /\ sessions[s].sub = "pending"
    /\ sessions' = [sessions EXCEPT ![s].sub = "none"]
    /\ error' = ErrSubscription(msg)
    /\ connectionStatus' = "error"
    /\ UNCHANGED <<connection, identity, tables, refVars, storedToken, handleRows, timers,
                   nextId, intentSetAt, foldVars, toolVars>>

\* The rows of a handle after the SDK applied one row change to its cache.
HasId(rows, id) == \E i \in 1..Len(rows) : rows[i].id = id
IndexOfId(rows, id) == CHOOSE i \in 1..Len(rows) : rows[i].id = id

CacheAfter(rows, kind, row) ==
  CASE kind = "insert" -> Append(rows, row)
    [] kind = "update" -> [rows EXCEPT ![IndexOfId(rows, row.id)] = row]
    [] OTHER -> RemoveAt(rows, IndexOfId(rows, row.id))

\* A table notification of an attached session: the SDK updates the cache
\* of the handle and calls the onInsert / onUpdate / onDelete handler.
TableNotification ==
  \E s \in AttemptIds, t \in TableNames, kind \in {"insert", "update", "delete"},
     row \in RawRows :
    /\ sessions[s].st = "open"
    /\ sessions[s].sub = "applied"
    /\ kind = "insert" => ~HasId(handleRows[s][t], row.id)
    /\ kind = "update" => HasId(handleRows[s][t], row.id)
                          /\ handleRows[s][t][IndexOfId(handleRows[s][t], row.id)] # row
    /\ kind = "delete" => \E i \in 1..Len(handleRows[s][t]) : handleRows[s][t][i] = row
    /\ handleRows' = [handleRows EXCEPT ![s][t] = CacheAfter(@, kind, row)]
    /\ tables' = updateTableData(tables, t, handleRows'[s])
    /\ UNCHANGED <<connectionStatus, connection, identity, error, refVars, storedToken,
                   sessions, timers, nextId, intentSetAt, foldVars, toolVars>>

\* The mount effect of the hook: initializeTable for every discovered table.
InitializeTables ==
  /\ \E t \in TableNames : ~tables[t].present
  /\ tables' = [t \in TableNames |-> initializeTable(tables, t)[t]]
  /\ UNCHANGED <<connectionStatus, connection, identity, error, refVars, sdkVars, foldVars, toolVars>>

Next ==
  \/ InitializeTables
  \/ HostConnect
  \/ RetryTimerFires
  \/ HandshakeSucceeds
  \/ HandshakeFails
  \/ SessionEnds
  \/ HostDisconnect
  \/ IntentTimerFires
  \/ SettleTimerFires
  \/ SubscriptionApplied
  \/ SubscriptionFails
  \/ TableNotification

Spec == Init /\ [][Next]_vars

\* ------------------------------------------------ use-table-handlers.ts
\* The attach of one session: setupTableHandlers(ctx) over the catalog,
\* the host's callback registry, and the notifications of the handles.
\* discoveredTables: the catalog, sorted by category and display name.
discoveredTables ==
  << [name |-> "auth_event", displayName |-> "Auth Event"],
     [name |-> "user", displayName |-> "User"] >>

\* What setting up one table meets: its handle is missing from ctx.db,
\* reading the handle throws, iter() throws, or registering a handler
\* throws.
SetupOutcomes == {"ok", "noHandle", "handleThrows", "iterThrows", "registerThrows"}

\* displayName.replace(/\s+/g, "")
StripWhitespace(displayName) ==
  CASE displayName = "Auth Event" -> "AuthEvent"
    [] OTHER -> displayName

KindSuffix(kind) ==
  CASE kind = "insert" -> "Insert"
    [] kind = "update" -> "Update"
    [] OTHER -> "Delete"

\* The callback name built from the display name as it is.
CallbackName_KeepWhitespace(displayName, kind) == "on" \o displayName \o KindSuffix(kind)

\* `on${displayName.replace(/\s+/g, "")}Insert` and its siblings.
CallbackName(displayName, kind) == "on" \o StripWhitespace(displayName) \o KindSuffix(kind)

HostCallbackNames ==
  {CallbackName(discoveredTables[i].displayName, kind) :
     i \in 1..Len(discoveredTables), kind \in {"insert", "update", "delete"}}
HostFunctions == {"f", "g"}

\* getCallback(callbackName): eventCallbacksRef.current[callbackName],
\* "undefined" when the key is absent.
getCallback(callbacks, callbackName) ==
  IF callbackName \in DOMAIN callbacks THEN callbacks[callbackName] ELSE "undefined"

\* The catch block of the forEach body with the failure leaving the loop.
CatchTable_Rethrow(acc, tableName) == [acc EXCEPT !.raised = TRUE]

\* catch (error) { console.error(`Failed to setup table ${tableName}:`) }
CatchTable(acc, tableName) == [acc EXCEPT !.logged = @ \cup {tableName}]

\* The body of discoveredTables.forEach for one table.
SetupTable(acc, table, rowsOf, outcome) ==
  LET seeded == [acc EXCEPT !.tables =
                   setTableData(@, table.name, processTableDataForRedux(rowsOf[table.name]))]
  IN IF acc.raised THEN acc
     ELSE CASE outcome[table.name] = "noHandle" -> acc
            [] outcome[table.name] \in {"handleThrows", "iterThrows"} ->
                 CatchTable(acc, table.name)
            [] outcome[table.name] = "registerThrows" -> CatchTable(seeded, table.name)
            [] OTHER -> [seeded EXCEPT !.registered = @ \cup {table.name}]

RECURSIVE SetupTables(_, _, _, _)
SetupTables(acc, catalog, rowsOf, outcome) ==
  IF catalog = <<>> THEN acc
  ELSE SetupTables(SetupTable(acc, Head(catalog), rowsOf, outcome), Tail(catalog),
                   rowsOf, outcome)

\* setupTableHandlers(ctx) where setting up a table can fail.
setupTableHandlersOver(tb, rowsOf, outcome) ==
  SetupTables([tables |-> tb, registered |-> {}, logged |-> {}, raised |-> FALSE],
              discoveredTables, rowsOf, outcome)

\* The onInsert / onUpdate / onDelete handler of a table: the mirror is
\* refreshed, then the host callback found under the name is called with
\* the rows of the notification; mirror is what the callback finds.
onTableEvent(tb, table, kind, args, rowsOf, callbacks) ==
  LET updated == updateTableData(tb, table.name, rowsOf)
      callbackName == CallbackName(table.displayName, kind)
      callback == getCallback(callbacks, callbackName)
  IN [tables |-> updated,
      calls |-> IF callback = "undefined" THEN <<>>
                ELSE << [fn |-> callback, name |-> callbackName, args |-> args,
                         mirror |-> updated[table.name].rows] >>]

\* Session 1 is open and its subscription is about to be applied.
InitAttach ==
  /\ connectionStatus = "connected"
  /\ connection = 1
  /\ identity = "idA"
  /\ error = ErrNone
  /\ tables = [t \in TableNames |-> NoTable]
  /\ isConnecting = FALSE
  /\ isIntentionalDisconnect = FALSE
  /\ storedToken = ""
  /\ sessions = [i \in AttemptIds |->
                   IF i = 1 THEN [NoSession EXCEPT !.st = "open", !.sub = "pending"]
                   ELSE NoSession]
  /\ handleRows = [i \in AttemptIds |-> EmptyHandle]
  /\ timers = {}
  /\ nextId = 1
  /\ intentSetAt = 0
  /\ replay = [t \in TableNames |-> [seeded |-> FALSE, coll |-> {}, lastOp |-> "none"]]
  /\ wellFormed = [t \in TableNames |-> TRUE]
  /\ marshalling = NoMarshalling
  /\ invocation = NoInvocation
  /\ typeCache = <<>>
  /\ analysis = NoAnalysis
  /\ discovery = NoDiscovery
  /\ \E outcome \in [TableNames -> SetupOutcomes] :
       attach = [NoAttach EXCEPT !.phase = "subscribed", !.outcome = outcome]

\* onApplied(ctx) -> setupTableHandlers(ctx)
AttachApplied ==
  \E rowsOf \in [TableNames -> InitialRows] :
    /\ attach.phase = "subscribed"
    /\ sessions' = [sessions EXCEPT ![1].sub = "applied"]
    /\ handleRows' = [handleRows EXCEPT ![1] = rowsOf]
    /\ LET r == setupTableHandlersOver(tables, rowsOf, attach.outcome)
       IN /\ tables' = r.tables
          /\ attach' = [attach EXCEPT !.phase = "attached", !.registered = r.registered,
                                      !.logged = r.logged, !.raised = r.raised]
    /\ UNCHANGED <<connectionStatus, connection, identity, error, refVars, storedToken,
                   timers, nextId, intentSetAt, foldVars, marshalling, invocation,
                   typeCache, analysis, discovery>>

\* registerEventCallbacks({[name]: fn})
RegisterEventCallbacks ==
  \E name \in HostCallbackNames, fn \in HostFunctions :
    /\ getCallback(attach.callbacks, name) # fn
    /\ Cardinality(DOMAIN attach.callbacks \cup {name}) <= MaxCallbacks
    /\ attach' = [attach EXCEPT !.callbacks =
         [n \in DOMAIN @ \cup {name} |-> IF n = name THEN fn ELSE @[n]]]
    /\ UNCHANGED <<storeVars, refVars, sdkVars, foldVars, marshalling, invocation,
                   typeCache, analysis, discovery>>

\* unregisterEventCallbacks([name])
UnregisterEventCallbacks ==
  \E name \in DOMAIN attach.callbacks :
    /\ attach' = [attach EXCEPT !.callbacks = [n \in DOMAIN @ \ {name} |-> @[n]]]
    /\ UNCHANGED <<storeVars, refVars, sdkVars, foldVars, marshalling, invocation,
                   typeCache, analysis, discovery>>

\* The SDK changes the cache of a handle and calls the handler that
\* setupTableEventHandlers registered on it.
AttachNotification ==
  \E i \in 1..Len(discoveredTables), kind \in {"insert", "update", "delete"},
     row \in RawRows :
    LET table == discoveredTables[i]
        t == table.name
        cached == handleRows[1][t]
        args == IF kind = "update" THEN <<cached[IndexOfId(cached, row.id)], row>>
                ELSE <<row>>
    IN /\ attach.phase = "attached"
       /\ t \in attach.registered
       /\ kind = "insert" => ~HasId(cached, row.id)
       /\ kind = "update" => HasId(cached, row.id) /\ cached[IndexOfId(cached, row.id)] # row
       /\ kind = "delete" => \E j \in 1..Len(cached) : cached[j] = row
       /\ handleRows' = [handleRows EXCEPT ![1][t] = CacheAfter(@, kind, row)]
       /\ LET d == onTableEvent(tables, table, kind, args, handleRows'[1], attach.callbacks)
          IN /\ tables' = d.tables
             /\ attach' = [attach EXCEPT !.last =
                  [table |-> t, kind |-> kind, args |-> args, calls |-> d.calls]]
       /\ UNCHANGED <<connectionStatus, connection, identity, error, refVars, storedToken,
                      sessions, timers, nextId, intentSetAt, foldVars, marshalling,
                      invocation, typeCache, analysis, discovery>>

NextAttach ==
  \/ AttachApplied
  \/ RegisterEventCallbacks
  \/ UnregisterEventCallbacks
  \/ AttachNotification

SpecAttach == InitAttach /\ [][NextAttach]_vars

\* ------------------------------------------ a backend that refuses
\* One connect() of the host against a backend that refuses every
\* handshake; the host does nothing else. Time passes in steps of TickMs
\* and a setTimeout callback runs once its delay has elapsed.
RetryMessages == {"E", "F"}

\* localStorage holds no token or the token of an earlier page load.
InitRetry ==
  /\ InitStore
  /\ storedToken \in {""} \cup Tokens
  /\ InitTools

\* The host calls connect() once.
RetryConnect ==
  /\ nextId = 0
  /\ HostConnect

RetryHandshakeFails ==
  \E s \in AttemptIds, msg \in RetryMessages : onConnectError(s, msg)

Remaining(delay) == IF delay > TickMs THEN delay - TickMs ELSE 0

RetryTick ==
  /\ \E tm \in timers : tm.delay > 0
  /\ timers' = {[tm EXCEPT !.delay = Remaining(@)] : tm \in timers}
  /\ UNCHANGED <<storeVars, refVars, storedToken, sessions, handleRows, nextId, intentSetAt,
                 foldVars, toolVars>>

RetryTimerDue ==
  /\ \A tm \in timers : tm.delay = 0
  /\ RetryTimerFires

NextRetry ==
  \/ InitializeTables
  \/ RetryConnect
  \/ RetryHandshakeFails
  \/ RetryTick
  \/ RetryTimerDue

\* The SDK reports every refused handshake, time passes, and the event
\* loop runs every timer that is due.
SpecRetry ==
  /\ InitRetry
  /\ [][NextRetry]_vars
  /\ WF_vars(RetryHandshakeFails)
  /\ WF_vars(RetryTick)
  /\ WF_vars(RetryTimerDue)
  /\ WF_vars(RetryConnect)

\* ------------------------------------------------ the slice on its own
\* The table operations of the slice driven by an arbitrary host stream
\* (handleTableInsert / handleTableUpdate / handleTableDelete dispatch
\* them), next to a replay of the same stream on a collection keyed by
\* the primary key.
MirrorIds == {Num(1), Num(2), Obj("x", 1), Obj("x", 2), JsNull}
MirrorRows == {[id |-> i, val |-> v] : i \in MirrorIds, v \in {Num(1), Num(2)}}
\* What a handle's iter() can return: rows with pairwise different keys.
SeedData ==
  {data \in UNION {[1..n -> MirrorRows] : n \in 0..MaxRows} :
     \A i, j \in 1..Len(data) : data[i].id = data[j].id => i = j}

TotalRows(tb) == Len(tb["user"].rows) + Len(tb["auth_event"].rows)
RowSet(rows) == {rows[i] : i \in 1..Len(rows)}
Primitive(x) == ~TypeofObject(x)

\* The keyed collection: a set of entries, at most one per key.
Upsert(coll, k, row) == {e \in coll : e.k # k} \cup {[k |-> k, row |-> row]}
Replace(coll, k, row) == IF \E e \in coll : e.k = k THEN Upsert(coll, k, row) ELSE coll
Remove(coll, k) == {e \in coll : e.k # k}
RECURSIVE FoldSeed(_, _)
FoldSeed(coll, data) ==
  IF data = <<>> THEN coll
  ELSE FoldSeed(Upsert(coll, Head(data).id, Head(data)), Tail(data))
ReplayRows(t) == {e.row : e \in replay[t].coll}

DistinctPrimitiveKeys(data) ==
  /\ \A i \in 1..Len(data) : Primitive(data[i].id)
  /\ \A i, j \in 1..Len(data) : data[i].id = data[j].id => i = j

\* The history follows the stream of a table from its seeding up to and
\* including its first key-inconsistent operation; nothing is recorded
\* about the stream after that until the table is seeded again.
Tracked(t) == replay[t].seeded /\ wellFormed[t]
Untracked == [seeded |-> FALSE, coll |-> {}, lastOp |-> "none"]
Follow(t, op, coll, consistent) ==
  /\ replay' = [replay EXCEPT ![t] =
       IF Tracked(t) THEN [seeded |-> TRUE, coll |-> coll, lastOp |-> op] ELSE Untracked]
  /\ wellFormed' = [wellFormed EXCEPT ![t] = IF Tracked(t) THEN consistent ELSE @]

InitSlice ==
  /\ Init
  /\ storedToken = ""

SliceInitializeTable ==
  \E t \in TableNames :
    /\ ~tables[t].present
    /\ tables' = initializeTable(tables, t)
    /\ UNCHANGED <<connectionStatus, connection, identity, error, refVars, sdkVars, foldVars, toolVars>>

SliceSetTableData ==
  \E t \in TableNames, data \in SeedData :
    /\ TotalRows(setTableData(tables, t, data)) <= MaxRows
    /\ tables' = setTableData(tables, t, data)
    /\ replay' = [replay EXCEPT ![t] =
         [seeded |-> TRUE, coll |-> FoldSeed({}, data), lastOp |-> "seed"]]
    /\ wellFormed' = [wellFormed EXCEPT ![t] = DistinctPrimitiveKeys(data)]
    /\ UNCHANGED <<connectionStatus, connection, identity, error, refVars, sdkVars, toolVars>>

SliceInsertTableRow ==
  \E t \in TableNames, row \in MirrorRows :
    /\ TotalRows(tables) < MaxRows
    /\ tables' = insertTableRow(tables, t, row)
    /\ Follow(t, "insert", Upsert(replay[t].coll, row.id, row),
              Primitive(row.id) /\ ~\E e \in replay[t].coll : e.k = row.id)
    /\ UNCHANGED <<connectionStatus, connection, identity, error, refVars, sdkVars, toolVars>>

SliceUpdateTableRow ==
  \E t \in TableNames, primaryValue \in MirrorIds, row \in MirrorRows :
    /\ tables' = updateTableRow(tables, t, PrimaryKeyOf(t), primaryValue, row)
    /\ Follow(t, "update", Replace(replay[t].coll, primaryValue, row),
              Primitive(primaryValue) /\ row.id = primaryValue)
    /\ UNCHANGED <<connectionStatus, connection, identity, error, refVars, sdkVars, toolVars>>

SliceDeleteTableRow ==
  \E t \in TableNames, primaryValue \in MirrorIds :
    /\ tables' = deleteTableRow(tables, t, PrimaryKeyOf(t), primaryValue)
    /\ Follow(t, "delete", Remove(replay[t].coll, primaryValue), Primitive(primaryValue))
    /\ UNCHANGED <<connectionStatus, connection, identity, error, refVars, sdkVars, toolVars>>

SliceClearAllTables ==
  /\ \E t \in TableNames : tables[t].present
  /\ tables' = clearAllTables(tables)
  /\ replay' = [t \in TableNames |-> Untracked]
  /\ wellFormed' = [t \in TableNames |-> TRUE]
  /\ UNCHANGED <<connectionStatus, connection, identity, error, refVars, sdkVars, toolVars>>

NextSlice ==
  \/ SliceInitializeTable
  \/ SliceSetTableData
  \/ SliceInsertTableRow
  \/ SliceUpdateTableRow
  \/ SliceDeleteTableRow
  \/ SliceClearAllTables

SpecSlice == InitSlice /\ [][NextSlice]_vars

\* ------------------------------------------------------ use-reducer-caller.ts
\* Property names are words over a small alphabet, so that the key
\* normalisation is computed letter by letter.
Lower == {"a", "b"}
Upper(c) == IF c = "a" THEN "A" ELSE IF c = "b" THEN "B" ELSE c

\* toCamelCase(str): str.replace(/_([a-z])/g, (_, letter) => letter.toUpperCase())
RECURSIVE toCamelCase(_)
toCamelCase(str) ==
  IF str = <<>> THEN <<>>
  ELSE IF Len(str) >= 2 /\ str[1] = "_" /\ str[2] \in Lower
    THEN <<Upper(str[2])>> \o toCamelCase(SubSeq(str, 3, Len(str)))
    ELSE <<str[1]>> \o toCamelCase(Tail(str))

\* More JavaScript values. A string is the decimal numeral of v ("dec"),
\* the text "true"/"false" of a boolean ("bool"), the text "NaN" ("nan")
\* or some other text number v ("txt"), text 0 being the empty string.
EmptyStr == Str(0)
Dec(n) == Val("string", "dec", n)
Bool(b) == Val("boolean", "-", IF b THEN 1 ELSE 0)
NaN == Val("number", "nan", 0)
\* The value of an expression whose evaluation throws.
Thrown(kind) == Val("throw", kind, 0)
IsThrown(x) == x.t = "throw"
Nullish(x) == x.t \in {"null", "undefined"}

\* String(value)
StringOf(value) ==
  CASE value.t = "string" -> value
    [] value.t = "number" -> IF value.f = "nan" THEN Val("string", "nan", 0) ELSE Dec(value.v)
    [] value.t = "bigint" -> Dec(value.v)
    [] value.t = "boolean" -> Val("string", "bool", value.v)
    [] OTHER -> Val("string", value.t, 0)

\* Number(value)
NumberOf(value) ==
  CASE value.t = "string" ->
         IF value.f = "dec" THEN Num(value.v)
         ELSE IF value = EmptyStr THEN Num(0) ELSE NaN
    [] value.t = "number" -> value
    [] value.t \in {"bigint", "boolean"} -> Num(value.v)
    [] value.t = "null" -> Num(0)
    [] OTHER -> NaN

\* Boolean(value)
BooleanOf(value) ==
  CASE value.t = "string" -> Bool(value # EmptyStr)
    [] value.t = "number" -> Bool(value.f # "nan" /\ value.v # 0)
    [] value.t = "bigint" -> Bool(value.v # 0)
    [] value.t = "boolean" -> value
    [] value.t \in {"null", "undefined"} -> Bool(FALSE)
    [] OTHER -> Bool(TRUE)

\* BigInt(value): a SyntaxError for text that is no integer numeral, a
\* RangeError for NaN, a TypeError for null and undefined.
BigIntOf(value) ==
  CASE value.t = "string" ->
         IF value.f = "dec" THEN BigInt(value.v)
         ELSE IF value = EmptyStr THEN BigInt(0) ELSE Thrown("SyntaxError")
    [] value.t = "number" -> IF value.f = "nan" THEN Thrown("RangeError") ELSE BigInt(value.v)
    [] value.t = "boolean" -> BigInt(value.v)
    [] value.t = "bigint" -> value
    [] OTHER -> Thrown("TypeError")

\* The type tags getTypeString produces, by the tests convertValueByType
\* makes on them ("unknown" starts with "u" as well).
TypeIsString(type) == type = "string"
TypeIsInt64(type) == type \in {"u64", "i64"}
TypeIsBoolean(type) == type \in {"boolean", "Bool"}
TypeStartsWithUIF(type) ==
  type \in {"u8", "u16", "u32", "u64", "i8", "i16", "i32", "i64", "f32", "f64", "unknown"}

\* convertValueByType(value, type)
convertValueByType(value, type) ==
  IF TypeIsString(type) THEN StringOf(value)
  ELSE IF TypeIsInt64(type) THEN BigIntOf(value)
  ELSE IF TypeIsBoolean(type) THEN BooleanOf(value)
  ELSE IF TypeStartsWithUIF(type) THEN NumberOf(value)
  ELSE value

\* args is the argument bag: the list of its own [key, value] entries in
\* Object.keys order. convertArgsToObject(args) is the object keyed by the
\* normalised keys; a later entry overwrites an earlier one with the same
\* normalised key.
LastIndexOf(args, name) ==
  CHOOSE i \in 1..Len(args) :
    /\ toCamelCase(args[i].key) = name
    /\ \A j \in (i + 1)..Len(args) : toCamelCase(args[j].key) # name

convertArgsToObject(args) ==
  [name \in {toCamelCase(args[i].key) : i \in 1..Len(args)} |->
     args[LastIndexOf(args, name)].value]

\* convertedArgs[name]
Lookup(convertedArgs, name) ==
  IF name \in DOMAIN convertedArgs THEN convertedArgs[name] ELSE Undefined

\* The body of the map callback of createOrderedArgs, for one field:
\* raw is convertedArgs[field.name].
OrderedArg(field, raw) ==
  LET value == IF ~Nullish(raw) THEN convertValueByType(raw, field.type) ELSE raw
  IN IF field.isOptional /\ (Nullish(value) \/ value = EmptyStr) THEN Undefined ELSE value

Reverse(s) == [i \in 1..Len(s) |-> s[Len(s) + 1 - i]]

\* createOrderedArgs that emits the entries last field first.
createOrderedArgs_Reversed(fields, convertedArgs) ==
  LET list == [i \in 1..Len(fields) |->
                 OrderedArg(fields[i], Lookup(convertedArgs, fields[i].name))]
  IN IF \E i \in 1..Len(list) : IsThrown(list[i])
       THEN [threw |-> TRUE, list |-> <<>>]
       ELSE [threw |-> FALSE, list |-> Reverse(list)]

\* createOrderedArgs(fields, convertedArgs): the positional list, or threw
\* when a conversion throws.
createOrderedArgs(fields, convertedArgs) ==
  LET list == [i \in 1..Len(fields) |->
                 OrderedArg(fields[i], Lookup(convertedArgs, fields[i].name))]
  IN IF \E i \in 1..Len(list) : IsThrown(list[i])
       THEN [threw |-> TRUE, list |-> <<>>]
       ELSE [threw |-> FALSE, list |-> list]

\* createOrderedArgs applied to a catalog field list and an argument bag.
FieldNames == {<<"a">>, <<"a", "A">>}
TypeTags == {"string", "boolean", "u32", "u64", "f64", "enum"}
FieldDescriptors == [name : FieldNames, type : TypeTags, isOptional : BOOLEAN]
\* Field lists of a reducer: the names of a product type are distinct.
FieldLists ==
  {fields \in UNION {[1..n -> FieldDescriptors] : n \in 0..MaxFields} :
     \A i, j \in 1..Len(fields) : fields[i].name = fields[j].name => i = j}

BagKeys == {<<"a">>, <<"a", "_", "a">>, <<"a", "A">>, <<"b">>}
BagValues == {Dec(5), EmptyStr, JsNull, Str(1)}
BagEntries == [key : BagKeys, value : BagValues]
\* Argument bags: an object has each own key once.
Bags ==
  {args \in UNION {[1..n -> BagEntries] : n \in 0..MaxBagLen} :
     \A i, j \in 1..Len(args) : args[i].key = args[j].key => i = j}

InitMarshal ==
  /\ InitSession
  /\ storedToken = ""
  /\ attach = NoAttach
  /\ marshalling \in {[phase |-> "input", fields |-> fields, args |-> args,
                       threw |-> FALSE, list |-> <<>>] : fields \in FieldLists, args \in Bags}
  /\ invocation = NoInvocation
  /\ typeCache = <<>>
  /\ analysis = NoAnalysis
  /\ discovery = NoDiscovery

\* callReducer, lines 30-34: the bag is normalised and marshalled.
CreateOrderedArgs ==
  /\ marshalling.phase = "input"
  /\ LET orderedArgs == createOrderedArgs(marshalling.fields,
                                          convertArgsToObject(marshalling.args))
     IN marshalling' = [marshalling EXCEPT !.phase = "done",
                                           !.threw = orderedArgs.threw,
                                           !.list = orderedArgs.list]
  /\ UNCHANGED <<storeVars, refVars, sdkVars, foldVars, attach, invocation, typeCache, analysis,
                 discovery>>

NextMarshal == CreateOrderedArgs

SpecMarshal == InitMarshal /\ [][NextMarshal]_vars

\* ------------------------------------------------ callReducer as a whole
\* The messages of the three errors callReducer throws before its try block.
ErrNotConnected == "Not connected to SpacetimeDB"
ErrMetadataNotFound == "Reducer metadata not found"
ErrMethodNotFound == "Reducer method not found"
\* What the remote call rejects with, and what a failed conversion throws.
ErrRemote == "remote rejection"
ErrConversion == "conversion error"

\* generateBaseValue(field): faker draws the value; one value stands for each
\* kind of draw. No draw is null, undefined or the empty string.
generateBaseValue(field) ==
  IF field.type = "boolean" THEN Bool(TRUE)
  ELSE IF field.type \in {"u8", "u16", "u32", "u64", "i8", "i16", "i32", "i64", "f32", "f64"}
    THEN Num(7)
  ELSE Str(2)

\* generateExampleArgs(fields): skipped is the set of optional fields for
\* which Math.random() > 0.8; when nothing was generated the first fields
\* (three at most) are forced.
generateExampleArgs(fields, skipped) ==
  LET drawn == {i \in 1..Len(fields) : ~(fields[i].isOptional /\ i \in skipped)}
      kept == IF drawn = {} THEN {i \in 1..Len(fields) : i <= 3} ELSE drawn
  IN [name \in {fields[i].name : i \in kept} |->
        generateBaseValue(CHOOSE f \in {fields[i] : i \in kept} : f.name = name)]

\* discoveredReducers.find((r) => r.name === reducerName): the index of the
\* first entry of that name, 0 when there is none.
FindReducer(discoveredReducers, reducerName) ==
  IF \E i \in 1..Len(discoveredReducers) : discoveredReducers[i].name = reducerName
    THEN CHOOSE i \in 1..Len(discoveredReducers) :
           /\ discoveredReducers[i].name = reducerName
           /\ \A j \in 1..(i - 1) : discoveredReducers[j].name # reducerName
    ELSE 0

\* (connection.reducers as any)[camelCaseMethodName]: "function" for a
\* callable property, "other" for a property that is no function, "absent".
MethodOf(reducers, camelCaseMethodName) ==
  IF camelCaseMethodName \in DOMAIN reducers THEN reducers[camelCaseMethodName] ELSE "absent"

\* The guards of callReducer with the catalog looked up before the connection.
GuardError_MetadataFirst(hasConnection, discoveredReducers, reducers, reducerName) ==
  IF FindReducer(discoveredReducers, reducerName) = 0 THEN ErrMetadataNotFound
  ELSE IF ~hasConnection THEN ErrNotConnected
  ELSE IF MethodOf(reducers, toCamelCase(reducerName)) # "function" THEN ErrMethodNotFound
  ELSE "none"

\* The three guards of callReducer (lines 11-27), in their order: the message
\* of the error thrown, "none" when the call goes on to the try block.
GuardError(hasConnection, discoveredReducers, reducers, reducerName) ==
  IF ~hasConnection THEN ErrNotConnected
  ELSE IF FindReducer(discoveredReducers, reducerName) = 0 THEN ErrMetadataNotFound
  ELSE IF MethodOf(reducers, toCamelCase(reducerName)) # "function" THEN ErrMethodNotFound
  ELSE "none"

\* A catch block that logs and returns normally.
CatchBlock_Swallow(caught) == [outcome |-> "fulfilled", error |-> "none", logged |-> TRUE]

\* The catch block of callReducer (lines 37-40): console.error, throw error.
CatchBlock(caught) == [outcome |-> "rejected", error |-> caught, logged |-> TRUE]

InvokeTypeTags == {"string", "u64"}
InvokeFieldLists ==
  {fields \in FieldLists : \A i \in 1..Len(fields) : fields[i].type \in InvokeTypeTags}
InvokeBags ==
  {args \in Bags : \A i \in 1..Len(args) :
     /\ args[i].key \in {<<"a">>, <<"a", "_", "a">>}
     /\ args[i].value \in {Dec(5), EmptyStr, Str(1)}}
ReducerNames == {<<"a", "_", "a">>, <<"b">>}
MethodNames == {<<"a", "A">>, <<"a", "_", "a">>}
\* ReducerMetadata of the catalog, as discoverReducers builds it.
ReducerMetadata(name, fields, skipped) ==
  [name |-> name, fields |-> fields, exampleArgs |-> generateExampleArgs(fields, skipped)]
\* The catalog is empty or holds the reducer a_a.
Catalogs ==
  {<<>>} \cup
  {<<ReducerMetadata(<<"a", "_", "a">>, fields, skipped)>> :
     fields \in InvokeFieldLists, skipped \in SUBSET (1..MaxFields)}

InitInvoke ==
  /\ InitSession
  /\ storedToken = ""
  /\ attach = NoAttach
  /\ marshalling = NoMarshalling
  /\ \E hasConnection \in BOOLEAN, discoveredReducers \in Catalogs,
        reducers \in [MethodNames -> {"function", "other", "absent"}],
        reducerName \in ReducerNames, args \in InvokeBags :
       invocation = [NoInvocation EXCEPT !.phase = "input",
                                         !.hasConnection = hasConnection,
                                         !.discoveredReducers = discoveredReducers,
                                         !.reducers = reducers,
                                         !.reducerName = reducerName,
                                         !.args = args]
  /\ typeCache = <<>>
  /\ analysis = NoAnalysis
  /\ discovery = NoDiscovery

\* callReducer(reducerName, args) up to its await: a guard throws, or the
\* marshalling throws inside the try block and the catch block rethrows, or
\* the reducer method is called with the ordered arguments.
CallReducer ==
  /\ invocation.phase = "input"
  /\ LET guard == GuardError(invocation.hasConnection, invocation.discoveredReducers,
                             invocation.reducers, invocation.reducerName)
         reducerMetadata ==
           invocation.discoveredReducers[FindReducer(invocation.discoveredReducers,
                                                     invocation.reducerName)]
         orderedArgs == createOrderedArgs(reducerMetadata.fields,
                                          convertArgsToObject(invocation.args))
     IN IF guard # "none"
          THEN invocation' = [invocation EXCEPT !.phase = "settled", !.raised = guard,
                                                !.outcome = "rejected", !.error = guard]
        ELSE IF orderedArgs.threw
          THEN invocation' = [invocation EXCEPT !.phase = "settled",
                                                !.raised = ErrConversion,
                                                !.outcome = CatchBlock(ErrConversion).outcome,
                                                !.error = CatchBlock(ErrConversion).error,
                                                !.logged = CatchBlock(ErrConversion).logged]
        ELSE invocation' = [invocation EXCEPT !.phase = "awaiting",
                                              !.calls = invocation.calls + 1,
                                              !.sent = orderedArgs.list]
  /\ UNCHANGED <<storeVars, refVars, sdkVars, foldVars, attach, marshalling, typeCache, analysis,
                 discovery>>

\* The awaited reducer call resolves: callReducer returns its value.
RemoteResolves ==
  /\ invocation.phase = "awaiting"
  /\ invocation' = [invocation EXCEPT !.phase = "settled", !.outcome = "fulfilled"]
  /\ UNCHANGED <<storeVars, refVars, sdkVars, foldVars, attach, marshalling, typeCache, analysis,
                 discovery>>

\* The reducer call throws or its promise rejects: the catch block runs.
RemoteRejects ==
  /\ invocation.phase = "awaiting"
  /\ invocation' = [invocation EXCEPT !.phase = "settled",
                                      !.raised = ErrRemote,
                                      !.outcome = CatchBlock(ErrRemote).outcome,
                                      !.error = CatchBlock(ErrRemote).error,
                                      !.logged = CatchBlock(ErrRemote).logged]
  /\ UNCHANGED <<storeVars, refVars, sdkVars, foldVars, attach, marshalling, typeCache, analysis,
                 discovery>>

NextInvoke ==
  \/ CallReducer
  \/ RemoteResolves
  \/ RemoteRejects

SpecInvoke == InitInvoke /\ [][NextInvoke]_vars

\* ------------------------------------------------------- type-analyzer.ts
\* An AlgebraicType as a tree: kind "prim" with the tag of AlgebraicType.Type,
\* kind "sum" with its variants, kind "product" with its elements; a variant
\* and an element are a name and a type.
Prim(tag) == [kind |-> "prim", tag |-> tag, parts |-> <<>>]
Sum(variants) == [kind |-> "sum", tag |-> "SumType", parts |-> variants]
Product(elements) == [kind |-> "product", tag |-> "ProductType", parts |-> elements]
Part(name, type) == [name |-> name, algebraicType |-> type]
Unit == Product(<<>>)
Option(some, none, type) == Sum(<<Part(some, type), Part(none, Unit)>>)

\* name.toLowerCase() on the variant names in use.
toLowerCase(name) ==
  CASE name = "Some" -> "some"
    [] name = "None" -> "none"
    [] name = "A" -> "a"
    [] name = "B" -> "b"
    [] name = "Other" -> "other"
    [] OTHER -> name

\* safeStringify(type): the tree written out as text, node by node: kind,
\* tag, number of parts, then each part's name followed by its type.
ArityToken(n) == <<"0", "1", "2", "3", "4">>[n + 1]
RECURSIVE safeStringify(_)
RECURSIVE StringifyParts(_)
StringifyParts(parts) ==
  IF parts = <<>> THEN <<>>
  ELSE <<Head(parts).name>> \o safeStringify(Head(parts).algebraicType)
         \o StringifyParts(Tail(parts))
safeStringify(type) ==
  <<type.kind, type.tag, ArityToken(Len(type.parts))>> \o StringifyParts(type.parts)

VariantNames(type) == [i \in 1..Len(type.parts) |-> toLowerCase(type.parts[i].name)]
Includes(seq, x) == \E i \in 1..Len(seq) : seq[i] = x

\* typeMap of getTypeString
TypeMap(tag) ==
  CASE tag = "Bool" -> "boolean"
    [] tag = "U32" -> "u32"
    [] tag = "U64" -> "u64"
    [] tag = "String" -> "string"
    [] tag = "SumType" -> "enum"
    [] tag = "ProductType" -> "object"
    [] OTHER -> "unknown"

\* getTypeString(type)
RECURSIVE getTypeString(_)
getTypeString(type) ==
  IF type.kind = "sum"
    THEN IF /\ Len(type.parts) = 2
            /\ Includes(VariantNames(type), "some")
            /\ Includes(VariantNames(type), "none")
           THEN LET someVariant ==
                      type.parts[CHOOSE i \in 1..2 : toLowerCase(type.parts[i].name) = "some"]
                IN getTypeString(someVariant.algebraicType)
           ELSE "enum"
    ELSE TypeMap(type.tag)

\* isOptionalType(type)
isOptionalType(type) ==
  /\ type.kind = "sum"
  /\ Includes(VariantNames(type), "none")
  /\ Includes(VariantNames(type), "some")

\* extractEnumValues(type); <<>> stands for undefined.
extractEnumValues(type) ==
  IF type.kind = "sum" /\ ~isOptionalType(type)
    THEN [i \in 1..Len(type.parts) |-> type.parts[i].name]
    ELSE <<>>

\* The FieldMetadata the analyzer builds, without the presentation fields
\* (displayName, inputType, validation, isArray of a model without arrays).
\* analyzeProductType(productType)
analyzeProductType(productType) ==
  [i \in 1..Len(productType.parts) |->
     [name |-> IF productType.parts[i].name # "" THEN productType.parts[i].name ELSE "unknown",
      type |-> getTypeString(productType.parts[i].algebraicType),
      isOptional |-> isOptionalType(productType.parts[i].algebraicType),
      enumValues |-> extractEnumValues(productType.parts[i].algebraicType)]]

\* analyzeSumType(sumType, name)
analyzeSumType(sumType, name) ==
  << [name |-> IF name # "" THEN name ELSE "variant",
      type |-> "enum",
      isOptional |-> FALSE,
      enumValues |-> [i \in 1..Len(sumType.parts) |-> sumType.parts[i].name]] >>

\* createFieldFromPrimitive(type, name)
createFieldFromPrimitive(type, name) ==
  [name |-> IF name # "" THEN name ELSE "value",
   type |-> getTypeString(type),
   isOptional |-> FALSE,
   enumValues |-> <<>>]

\* The body of analyzeAlgebraicType after a cache miss (lines 21-32).
AnalyzeFresh(type, name) ==
  IF type.kind = "product" THEN analyzeProductType(type)
  ELSE IF type.kind = "sum" THEN analyzeSumType(type, name)
  ELSE <<createFieldFromPrimitive(type, name)>>

\* A cache that is never hit.
CacheHas_Never(cache, cacheKey) == FALSE

\* this.typeCache.has(cacheKey)
CacheHas(cache, cacheKey) == cacheKey \in DOMAIN cache

\* analyzeAlgebraicType(type, name) on an analyzer whose typeCache is cache:
\* the list returned and the cache afterwards.
analyzeAlgebraicType(cache, type, name) ==
  LET cacheKey == safeStringify(type)
  IN IF CacheHas(cache, cacheKey)
       THEN [fields |-> cache[cacheKey], cache |-> cache, hit |-> TRUE]
       ELSE LET fields == AnalyzeFresh(type, name)
            IN [fields |-> fields,
                cache |-> [k \in DOMAIN cache \cup {cacheKey} |->
                             IF k = cacheKey THEN fields ELSE cache[k]],
                hit |-> FALSE]

\* The types analyzed: primitives, Option sums in two casings, a plain
\* enum, a three-variant sum that has Some and None among its variants, and
\* products of up to MaxFields elements named a, b, ... of these types.
Primitives == {Prim("U32"), Prim("String")}
OptionTypes == {Option("Some", "None", Prim("U32")), Option("none", "some", Prim("String"))}
EnumTypes ==
  {Sum(<<Part("A", Unit), Part("B", Unit)>>),
   Sum(<<Part("Some", Prim("U32")), Part("None", Unit), Part("Other", Unit)>>)}
ElementTypes == {Prim("U32")} \cup OptionTypes \cup EnumTypes
ElementName(i) == <<"a", "b", "c", "d">>[i]
ProductTypes ==
  {Product([i \in 1..Len(types) |-> Part(ElementName(i), types[i])]) :
     types \in UNION {[1..n -> ElementTypes] : n \in 0..MaxFields}}
AnalyzedTypes == Primitives \cup OptionTypes \cup EnumTypes \cup ProductTypes
ContextNames == {"", "x", "y"}

InitAnalyzer ==
  /\ InitSession
  /\ storedToken = ""
  /\ attach = NoAttach
  /\ marshalling = NoMarshalling
  /\ invocation = NoInvocation
  /\ typeCache = <<>>
  /\ analysis = NoAnalysis
  /\ discovery = NoDiscovery

\* A caller runs analyzeAlgebraicType(type, name) on the analyzer.
Analyze ==
  \E type \in AnalyzedTypes, name \in ContextNames :
    /\ analysis.calls < MaxCalls
    /\ LET r == analyzeAlgebraicType(typeCache, type, name)
       IN /\ typeCache' = r.cache
          /\ analysis' = [phase |-> "returned", type |-> type, name |-> name,
                          fields |-> r.fields, hit |-> r.hit,
                          calls |-> analysis.calls + 1,
                          returned |-> analysis.returned \cup
                                         {[type |-> type, fields |-> r.fields]}]
    /\ UNCHANGED <<storeVars, refVars, sdkVars, foldVars, attach, marshalling, invocation, discovery>>

NextAnalyzer == Analyze

SpecAnalyzer == InitAnalyzer /\ [][NextAnalyzer]_vars

\* ------------------------------------------------ description-generator.ts
\* The exported type names the module discovery returns, with what the
\* introspector derives from each: toSnakeCase, formatDisplayName,
\* categorizeItem.
TypeNames == {"Message", "User", "Zone"}
toSnakeCase(str) ==
  CASE str = "Message" -> "message"
    [] str = "User" -> "user"
    [] str = "Zone" -> "zone"
    [] OTHER -> str
formatDisplayName(name) == name
categorizeItem(name) ==
  CASE name = "User" -> "User Management"
    [] name = "Message" -> "Content & Media"
    [] OTHER -> "Other"

\* Position of a string among those in use under localeCompare.
LocaleRank(s) ==
  CASE s = "Content & Media" -> 1
    [] s = "Message" -> 2
    [] s = "Other" -> 3
    [] s = "User" -> 4
    [] s = "User Management" -> 5
    [] OTHER -> 6

\* The comparator of the sort of discoverTables: by displayName.
TableBefore(a, b) == LocaleRank(a.displayName) < LocaleRank(b.displayName)
\* The comparator of the sort of discoverReducers: by category, then by
\* displayName.
ReducerBefore(a, b) ==
  IF a.category # b.category
    THEN LocaleRank(a.category) < LocaleRank(b.category)
    ELSE LocaleRank(a.displayName) < LocaleRank(b.displayName)

\* entries.sort(comparator), with the comparator of the kind of catalog, for
\* entries that the comparator tells apart.
Sorted(kind, entries) ==
  CHOOSE s \in [1..Len(entries) -> {entries[i] : i \in 1..Len(entries)}] :
    /\ \A i \in 1..Len(entries) : \E j \in 1..Len(entries) : s[j] = entries[i]
    /\ \A i, j \in 1..Len(entries) :
         i < j => IF kind = "tables" THEN TableBefore(s[i], s[j])
                                    ELSE ReducerBefore(s[i], s[j])

\* What a discovered symbol's getTypeScriptAlgebraicType() does: it throws,
\* or returns a type, or returns something that is no AlgebraicType, on
\* which the analysis throws a TypeError.
NotAType == [kind |-> "none", tag |-> "", parts |-> <<>>]
SymbolTypes == {Product(<<>>), Product(<<Part("a", Prim("U32"))>>), NotAType}
Symbols == [name : TypeNames, accessor : {"returns", "throws"}, type : SymbolTypes]
SymbolFails(sym) == sym.accessor = "throws" \/ sym.type = NotAType

\* The catch block with the failure leaving the loop.
CatchSymbol_Rethrow(acc, name) == [acc EXCEPT !.raised = TRUE]

\* catch (error) { console.warn(`Failed to introspect ...`) }
CatchSymbol(acc, name) == [acc EXCEPT !.warned = @ \cup {name}]

\* The loop body that passes over a symbol whose type the analyzer holds.
IntrospectSymbol_SkipCached(acc, sym) ==
  IF sym.accessor = "throws" THEN CatchSymbol(acc, sym.name)
  ELSE IF sym.type = NotAType THEN CatchSymbol(acc, sym.name)
  ELSE IF CacheHas(acc.cache, safeStringify(sym.type)) THEN acc
  ELSE LET r == analyzeAlgebraicType(acc.cache, sym.type, sym.name)
       IN [acc EXCEPT !.cache = r.cache,
                      !.entries = Append(@, [name |-> toSnakeCase(sym.name),
                                             displayName |-> formatDisplayName(sym.name),
                                             category |-> categorizeItem(sym.name),
                                             fields |-> r.fields])]

\* The body of the for loop of discoverTables / discoverReducers for one
\* symbol: acc holds the entries pushed so far, the names warned about, the
\* analyzer's cache and whether an exception has left the loop.
IntrospectSymbol(acc, sym) ==
  IF sym.accessor = "throws" THEN CatchSymbol(acc, sym.name)
  ELSE IF sym.type = NotAType THEN CatchSymbol(acc, sym.name)
  ELSE LET r == analyzeAlgebraicType(acc.cache, sym.type, sym.name)
       IN [acc EXCEPT !.cache = r.cache,
                      !.entries = Append(@, [name |-> toSnakeCase(sym.name),
                                             displayName |-> formatDisplayName(sym.name),
                                             category |-> categorizeItem(sym.name),
                                             fields |-> r.fields])]

RECURSIVE IntrospectAll(_, _)
IntrospectAll(acc, symbols) ==
  IF symbols = <<>> \/ acc.raised THEN acc
  ELSE IntrospectAll(IntrospectSymbol(acc, Head(symbols)), Tail(symbols))

\* discoverTables() / discoverReducers() over the discovered symbols.
DiscoverResult(kind, cache, symbols) ==
  LET acc == IntrospectAll([entries |-> <<>>, warned |-> {}, cache |-> cache,
                            raised |-> FALSE], symbols)
  IN [catalog |-> IF acc.raised THEN <<>>
                  ELSE Sorted(kind, acc.entries),
      warned |-> acc.warned, cache |-> acc.cache, raised |-> acc.raised]

\* The symbols of a module, in the order the discovery lists them.
SymbolLists ==
  {symbols \in UNION {[1..n -> Symbols] : n \in 0..MaxSymbols} :
     \A i, j \in 1..Len(symbols) : symbols[i].name = symbols[j].name => i = j}

InitDiscovery ==
  /\ InitSession
  /\ storedToken = ""
  /\ attach = NoAttach
  /\ marshalling = NoMarshalling
  /\ invocation = NoInvocation
  /\ typeCache = <<>>
  /\ analysis = NoAnalysis
  /\ \E kind \in {"tables", "reducers"}, symbols \in SymbolLists :
       discovery = [NoDiscovery EXCEPT !.phase = "input", !.kind = kind,
                                       !.symbols = symbols]

\* spacetimeIntrospector.discoverTables() or .discoverReducers(), called on
\* the one exported introspector: its analyzer keeps the cache of the
\* earlier calls. previous is the catalog the call before returned.
Discover ==
  /\ discovery.phase \in {"input", "done"}
  /\ discovery.runs < MaxRuns
  /\ LET r == DiscoverResult(discovery.kind, typeCache, discovery.symbols)
     IN /\ discovery' = [discovery EXCEPT !.phase = "done", !.catalog = r.catalog,
                                          !.warned = r.warned, !.raised = r.raised,
                                          !.runs = @ + 1,
                                          !.previous = discovery.catalog]
        /\ typeCache' = r.cache
  /\ UNCHANGED <<storeVars, refVars, sdkVars, foldVars, attach, marshalling, invocation, analysis>>

NextDiscovery == Discover

SpecDiscovery == InitDiscovery /\ [][NextDiscovery]_vars

\* ===================================================== properties
\* Steps are recognised by what only they do to the state.

\* The retry timer tm fires in this step (one retry timer per attempt).
FiredRetry(tm) ==
  /\ tm \in timers
  /\ tm.kind = "retry"
  /\ \A x \in timers' : x.kind = "retry" => x.by # tm.by

\* The timers of a kind this step schedules.
NewTimers(kind) ==
  {x \in timers' : x.kind = kind /\ \A y \in timers : y.kind = kind => y.by # x.by}

\* onConnectError of attempt s runs in this step.
FailureObserved(s) ==
  sessions[s].st = "handshaking" /\ sessions'[s].st \in {"ended", "suppressed"}

\* connect() passes its guard in this step, as attempt s, and opening the
\* session throws.
OpenThrew(s) == sessions[s].st = "unused" /\ sessions'[s].st = "ended"

\* connect() passes its guard in this step.
ConnectPassed == nextId' = nextId + 1

\* The retryCount of the connect() call of this step.
CallRetryCount ==
  IF \E tm \in timers : FiredRetry(tm)
    THEN (CHOOSE tm \in timers : FiredRetry(tm)).attempt
    ELSE 0

\* disconnect() finds a connection in this step.
DisconnectRan == connection # 0 /\ connection' = 0 /\ timers' # timers

\* A table notification of session s for table t is handled in this step.
Notified(s, t) ==
  /\ sessions[s].sub = "applied"
  /\ sessions'[s].sub = "applied"
  /\ handleRows'[s][t] # handleRows[s][t]

\* ---- C1
\* C1 as stated: once a table is seeded, whatever insert / update / delete
\* operations follow, the row set of its mirror equals the rows of the
\* replay of the same operations on a collection keyed by the primary key.
C1_AnyStreamIsFold ==
  \A t \in TableNames : replay[t].seeded => RowSet(tables[t].rows) = ReplayRows(t)

\* C1 amended: the mirror's row set equals the keyed replay for every
\* stream that is key-consistent: the seed rows carry distinct primitive
\* keys, every insert carries a primitive key the collection does not
\* hold, every update carries a primitive key and a row with that key,
\* every delete a primitive key.
C1_ConsistentStreamIsFold ==
  \A t \in TableNames : Tracked(t) => RowSet(tables[t].rows) = ReplayRows(t)

C1_Witness ==
  \E t \in TableNames :
    /\ Tracked(t)
    /\ replay[t].lastOp = "delete"
    /\ Len(tables[t].rows) = 1
    /\ RowSet(tables[t].rows) = ReplayRows(t)

RetryAsClaimed(s, n) ==
  LET new == NewTimers("retry")
  IN IF n < maxRetries
       THEN /\ Cardinality(new) = 1
            /\ \A x \in new : /\ x.by = s
                              /\ x.attempt = n + 1
                              /\ x.delay = retryBackoffMultiplier * 1000 * (n + 1)
       ELSE new = {}

C4_IntentionalFlag ==
  [][/\ \A s \in AttemptIds :
          FailureObserved(s) /\ isIntentionalDisconnect
            => NewTimers("retry") = {} /\ intentSetAt >= s
     /\ ConnectPassed => ~isIntentionalDisconnect']_vars

C4_Witness ==
  \E s \in AttemptIds :
    /\ sessions[s].st = "suppressed"
    /\ \A tm \in timers : tm.kind = "retry" => tm.by # s
    /\ connectionStatus = "disconnected"

\* ---- C5
\* C5 as stated: a retry timer that fires after a disconnect() or after a
\* newer connect() has started changes nothing: no session is opened and
\* the store and the flags stay as they are.
C5_StaleRetryIsNoOp ==
  [][\A tm \in timers :
       FiredRetry(tm) /\ (tm.sawDisconnect \/ nextId > tm.by)
         => UNCHANGED <<storeVars, refVars, sessions, nextId>>]_vars

\* ---- C6
\* C6 as stated: when disconnect() ran while a retry timer was pending and
\* the host has not called connect() since, the firing of that timer opens
\* no session and leaves the status as it is.
C6_DisconnectCancelsRetry ==
  [][\A tm \in timers :
       FiredRetry(tm) /\ tm.sawDisconnect
         => nextId' = nextId /\ connectionStatus' = connectionStatus]_vars

\* ---- C7
\* C7 as stated: a connect() of the host while the status is connecting
\* or connected never passes the guard (it opens no session and changes
\* nothing).
C7_ConnectGuard ==
  [][(ConnectPassed /\ ~\E tm \in timers : FiredRetry(tm))
       => connectionStatus \notin {"connecting", "connected"}]_vars

\* ---- C8
\* C8: disconnect() on a connected session sets the intentional flag, has
\* the session torn down and leaves status disconnected, no connection
\* handle and no table mirror.
C8_DisconnectClears ==
  [][(connectionStatus = "connected" /\ DisconnectRan) =>
       /\ isIntentionalDisconnect'
       /\ sessions'[connection].st = "closing"
       /\ connectionStatus' = "disconnected"
       /\ connection' = 0
       /\ \A t \in TableNames : tables'[t] = NoTable]_vars

C8_Witness ==
  /\ isIntentionalDisconnect
  /\ connectionStatus = "disconnected"
  /\ connection = 0
  /\ \A t \in TableNames : tables[t] = NoTable
  /\ \E s \in AttemptIds :
       /\ sessions[s].st = "closing"
       /\ \E tm \in timers : tm.kind = "clearIntent" /\ tm.by = s

\* ---- C9
\* What the claim expects after a failure of attempt number n observed
\* with the intentional flag as given.
FailureSettled(intentional, n) ==
  IF intentional
    THEN connectionStatus' = "disconnected" /\ NewTimers("retry") = {}
    ELSE /\ connectionStatus' = "error"
         /\ error'.kind \in {"raw", "terminal"}
         /\ n >= maxRetries => error'.kind = "terminal" /\ NewTimers("retry") = {}

\* C9 as stated: a failure under the intentional flag settles at
\* disconnected without a retry; any other failure sets status error and
\* records the failure, with the terminal message once attempt >=
\* maxRetries (in onConnectError and in the catch branch alike).
C9_FailureHandling ==
  [][/\ \A s \in AttemptIds :
          FailureObserved(s) => FailureSettled(isIntentionalDisconnect, sessions[s].retryCount)
     /\ \A s \in AttemptIds : OpenThrew(s) => FailureSettled(FALSE, CallRetryCount)]_vars

\* ---- C10
\* C10 as stated: a successful handshake persists the returned token, sets
\* status connected, records identity and handle and only schedules the
\* attach after the settle
\* delay; the attach runs only for a session that is open (its handshake
\* succeeded and it has not been disconnected) when the timer fires.
C10_AttachGate ==
  [][/\ \A s \in AttemptIds :
          (sessions[s].st = "handshaking" /\ sessions'[s].st = "open") =>
            /\ sessions'[s].token # "" => storedToken' = sessions'[s].token
            /\ connectionStatus' = "connected"
            /\ identity' # ""
            /\ connection' = s
            /\ sessions'[s].sub = "none"
            /\ NewTimers("settle") = {Timer("settle", s, 0, subscriptionDelay, FALSE)}
     /\ \A tm \in timers :
          (tm.kind = "settle" /\ tm \notin timers') => sessions[tm.by].st = "open"]_vars

\* ---- C11
\* The orders in which the entries of a bag can be listed.
Orderings(args) ==
  {[i \in 1..Len(args) |-> args[p[i]]] :
     p \in {q \in [1..Len(args) -> 1..Len(args)] :
              \A i, j \in 1..Len(args) : q[i] = q[j] => i = j}}

\* The entries of the bag whose normalised key is the name of some field.
RECURSIVE Matching(_, _)
Matching(fields, args) ==
  IF args = <<>> THEN <<>>
  ELSE IF \E i \in 1..Len(fields) : fields[i].name = toCamelCase(Head(args).key)
    THEN <<Head(args)>> \o Matching(fields, Tail(args))
    ELSE Matching(fields, Tail(args))

\* The bag values a field can be derived from: those whose normalised key
\* is its name, or undefined when there is none.
ValuesFor(name, args) ==
  LET given == {args[i].value : i \in {j \in 1..Len(args) : toCamelCase(args[j].key) = name}}
  IN IF given = {} THEN {Undefined} ELSE given

Marshalled(fields, args) == createOrderedArgs(fields, convertArgsToObject(args))

\* No two keys of the bag have the same normalised key.
NoKeyCollision(args) ==
  \A i, j \in 1..Len(args) : toCamelCase(args[i].key) = toCamelCase(args[j].key) => i = j

ListAsClaimed(m) ==
  /\ ~m.threw =>
       /\ Len(m.list) = Len(m.fields)
       /\ \A i \in 1..Len(m.fields) :
            \E raw \in ValuesFor(m.fields[i].name, m.args) :
              m.list[i] = OrderedArg(m.fields[i], raw)
  /\ \A args2 \in Orderings(m.args) :
       Marshalled(m.fields, args2) = [threw |-> m.threw, list |-> m.list]
  /\ Marshalled(m.fields, Matching(m.fields, m.args)) = [threw |-> m.threw, list |-> m.list]

\* C11 as stated: for every field list and every bag the positional list
\* has one entry per field, in declaration order, entry i derived from a
\* bag value whose normalised key is the name of field i; listing the
\* bag's keys in another order or dropping the keys that match no field
\* gives the same list.
C11_ListFromFieldsOnly ==
  marshalling.phase = "done" => ListAsClaimed(marshalling)

\* C11 amended: the same, for every bag in which no two keys have the
\* same normalised key.
C11_ListFromFieldsNoCollision ==
  (marshalling.phase = "done" /\ NoKeyCollision(marshalling.args)) => ListAsClaimed(marshalling)

C11_Witness ==
  /\ marshalling.phase = "done"
  /\ marshalling.fields = << [name |-> <<"a">>, type |-> "u32", isOptional |-> FALSE],
                             [name |-> <<"a", "A">>, type |-> "string", isOptional |-> FALSE] >>
  /\ marshalling.args = << [key |-> <<"a", "_", "a">>, value |-> Str(1)],
                           [key |-> <<"a">>, value |-> Dec(5)] >>
  /\ marshalling.list = << Num(5), Str(1) >>

\* ---- C12
\* C12 as stated: an optional field of any type tag whose bag value is
\* absent, null or the empty string is passed as undefined at its position.
C12_EmptyOptionalElided ==
  (marshalling.phase = "done" /\ ~marshalling.threw) =>
    \A i \in 1..Len(marshalling.fields) :
      (/\ marshalling.fields[i].isOptional
       /\ \A raw \in ValuesFor(marshalling.fields[i].name, marshalling.args) :
            Nullish(raw) \/ raw = EmptyStr)
        => marshalling.list[i] = Undefined

\* ---- C13
\* C13 as stated: when the reducer method is called and the bag holds no
\* value for a required field, the entry at that field's position is the
\* catalog's example value of the field (converted by the field's type),
\* never undefined.
C13_ExampleFallback ==
  invocation.calls = 1 =>
    LET reducerMetadata ==
          invocation.discoveredReducers[FindReducer(invocation.discoveredReducers,
                                                    invocation.reducerName)]
    IN \A i \in 1..Len(reducerMetadata.fields) :
         LET field == reducerMetadata.fields[i]
         IN (~field.isOptional /\ ValuesFor(field.name, invocation.args) = {Undefined})
              => /\ field.name \in DOMAIN reducerMetadata.exampleArgs
                 /\ invocation.sent[i] =
                      convertValueByType(reducerMetadata.exampleArgs[field.name], field.type)

\* ---- C14
NoRemoteCall(inv) == inv.calls = 0 /\ inv.sent = <<>> /\ inv.outcome = "rejected"

\* C14: once callReducer has run, it has failed with "Not connected" when
\* there is no connection; else with "Reducer metadata not found" when the
\* name is not in the catalog; else with "Reducer method not found" when the
\* connection's reducer namespace holds no function under the camel-cased
\* name; and in each of the three cases the reducer method was not called.
C14_GuardOrder ==
  invocation.phase \in {"awaiting", "settled"} =>
    LET known == \E i \in 1..Len(invocation.discoveredReducers) :
                   invocation.discoveredReducers[i].name = invocation.reducerName
        callable == /\ toCamelCase(invocation.reducerName) \in DOMAIN invocation.reducers
                    /\ invocation.reducers[toCamelCase(invocation.reducerName)] = "function"
    IN /\ ~invocation.hasConnection =>
            invocation.error = ErrNotConnected /\ NoRemoteCall(invocation)
       /\ (invocation.hasConnection /\ ~known) =>
            invocation.error = ErrMetadataNotFound /\ NoRemoteCall(invocation)
       /\ (invocation.hasConnection /\ known /\ ~callable) =>
            invocation.error = ErrMethodNotFound /\ NoRemoteCall(invocation)

\* All three guards would fail; the first one decides.
C14_Witness ==
  /\ invocation.phase = "settled"
  /\ ~invocation.hasConnection
  /\ invocation.discoveredReducers = <<>>
  /\ invocation.reducerName = <<"a", "_", "a">>
  /\ invocation.reducers[<<"a", "A">>] = "other"
  /\ invocation.error = ErrNotConnected
  /\ invocation.calls = 0

\* ---- C15
\* C15: an error raised during callReducer (a failed guard, a failed
\* conversion, a rejection of the reducer call) is the error the settled
\* call is rejected with, a call in which nothing was raised is fulfilled,
\* and the reducer method is called at most once per callReducer.
C15_ErrorsPropagateNoRetry ==
  /\ invocation.calls <= 1
  /\ invocation.phase = "settled" =>
       IF invocation.raised # "none"
         THEN invocation.outcome = "rejected" /\ invocation.error = invocation.raised
         ELSE invocation.outcome = "fulfilled" /\ invocation.calls = 1

\* The reducer call was made once and rejected; the caller sees the rejection.
C15_Witness ==
  /\ invocation.phase = "settled"
  /\ invocation.calls = 1
  /\ invocation.raised = ErrRemote
  /\ invocation.outcome = "rejected"
  /\ invocation.error = ErrRemote
  /\ invocation.logged

\* ---- C16
\* C16: every connect attempt that opens a session, the first one and a
\* retry alike, hands the session the token stored at that moment (none
\* when nothing is stored); a handshake that succeeds with an issued token
\* leaves that token stored; and the stored token changes at no other step.
C16_TokenReplayedAndKept ==
  [][/\ \A s \in AttemptIds :
          (sessions[s].st = "unused" /\ sessions'[s].st = "handshaking")
            => sessions'[s].token = storedToken /\ storedToken' = storedToken
     /\ \A s \in AttemptIds :
          (sessions[s].st = "handshaking" /\ sessions'[s].st = "open"
             /\ sessions'[s].token # "")
            => storedToken' = sessions'[s].token
     /\ storedToken' # storedToken =>
          /\ storedToken' # ""
          /\ \E s \in AttemptIds :
               /\ sessions[s].st = "handshaking" /\ sessions'[s].st = "open"
               /\ sessions'[s].token = storedToken']_vars

\* A retry replays the token that an earlier handshake was issued.
C16_Witness ==
  \E s, r \in AttemptIds :
    /\ s # r
    /\ sessions[s].token = "t2"
    /\ sessions[s].st \in {"open", "ended"}
    /\ storedToken = "t2"
    /\ sessions[r].st = "handshaking"
    /\ sessions[r].retryCount > 0
    /\ sessions[r].token = "t2"

\* ---- C17
\* A sum whose variants are exactly Some and None, in any casing.
IsOptionSum(type) ==
  /\ type.kind = "sum"
  /\ Len(type.parts) = 2
  /\ {toLowerCase(type.parts[i].name) : i \in 1..2} = {"some", "none"}
WrappedType(type) ==
  type.parts[CHOOSE i \in 1..2 : toLowerCase(type.parts[i].name) = "some"].algebraicType
DescribesOption(field, type) ==
  /\ field.isOptional
  /\ field.type = TypeMap(WrappedType(type).tag)
  /\ field.type # "enum"

\* C17 as stated: the descriptor derived from a Some/None sum is optional
\* and carries the type tag of the wrapped type, both when the sum is the
\* analyzed type itself and when it is the type of a product element.
C17_OptionSumIsOptional ==
  analysis.phase = "returned" =>
    /\ IsOptionSum(analysis.type) =>
         Len(analysis.fields) = 1 /\ DescribesOption(analysis.fields[1], analysis.type)
    /\ analysis.type.kind = "product" =>
         /\ Len(analysis.fields) = Len(analysis.type.parts)
         /\ \A i \in 1..Len(analysis.type.parts) :
              IsOptionSum(analysis.type.parts[i].algebraicType) =>
                DescribesOption(analysis.fields[i], analysis.type.parts[i].algebraicType)

\* ---- C18
\* C18: all the calls of analyzeAlgebraicType made on one analyzer with
\* structurally equal types returned the same descriptor list, computed or
\* cached, and the list of a product type has one descriptor per element,
\* in element order, named after the element.
C18_AnalyzeStable ==
  /\ \A p, q \in analysis.returned : p.type = q.type => p.fields = q.fields
  /\ (analysis.phase = "returned" /\ analysis.type.kind = "product") =>
       /\ Len(analysis.fields) = Len(analysis.type.parts)
       /\ \A i \in 1..Len(analysis.fields) :
            analysis.fields[i].name = analysis.type.parts[i].name

\* The second call is served from the cache, for a product of two elements.
C18_Witness ==
  /\ analysis.calls = 2
  /\ analysis.hit
  /\ analysis.type = Product(<<Part("a", Prim("U32")),
                               Part("b", Option("Some", "None", Prim("U32")))>>)
  /\ Len(analysis.fields) = 2
  /\ analysis.fields[1].name = "a" /\ analysis.fields[2].name = "b"
  /\ analysis.fields[2].isOptional

\* ---- C19
\* C19 as stated: analyzing a primitive type under a non-empty context name
\* returns one descriptor named by that context name, whatever was analyzed
\* before on the same analyzer.
C19_PrimitiveNamedByContext ==
  (analysis.phase = "returned" /\ analysis.type.kind = "prim" /\ analysis.name # "") =>
    Len(analysis.fields) = 1 /\ analysis.fields[1].name = analysis.name

\* ---- C20
\* C20: discoverTables() and discoverReducers() never raise; a symbol whose
\* type accessor throws or whose type cannot be analyzed has no entry in the
\* returned catalog, and every other discovered symbol has exactly one.
C20_FailedSymbolSkipped ==
  discovery.phase = "done" =>
    /\ ~discovery.raised
    /\ \A i \in 1..Len(discovery.symbols) :
         LET sym == discovery.symbols[i]
             mine == {j \in 1..Len(discovery.catalog) :
                        discovery.catalog[j].name = toSnakeCase(sym.name)}
         IN IF SymbolFails(sym) THEN mine = {} ELSE Cardinality(mine) = 1
    /\ Len(discovery.catalog) =
         Cardinality({i \in 1..Len(discovery.symbols) : ~SymbolFails(discovery.symbols[i])})

\* The accessor of User throws between two symbols that are introspected.
C20_Witness ==
  /\ discovery.phase = "done"
  /\ discovery.kind = "reducers"
  /\ Len(discovery.symbols) = 3
  /\ discovery.symbols[1].name = "Zone" /\ ~SymbolFails(discovery.symbols[1])
  /\ discovery.symbols[2].name = "User" /\ discovery.symbols[2].accessor = "throws"
  /\ discovery.symbols[3].name = "Message" /\ ~SymbolFails(discovery.symbols[3])
  /\ discovery.warned = {"User"}
  /\ Len(discovery.catalog) = 2
  /\ discovery.catalog[1].name = "message"
  /\ discovery.catalog[2].name = "zone"

\* ---- C21
EntryNames(catalog) == {catalog[i].name : i \in 1..Len(catalog)}

\* C21: a second call of discoverTables() / discoverReducers() on the same
\* introspector over the same symbols returns a catalog of the same length
\* with the same set of entry names as the first call, whatever the first
\* call left in the analyzer's cache.
C21_DiscoveryRepeatable ==
  discovery.runs >= 2 =>
    /\ ~discovery.raised
    /\ Len(discovery.catalog) = Len(discovery.previous)
    /\ EntryNames(discovery.catalog) = EntryNames(discovery.previous)

\* The second call finds the types of both symbols in the cache.
C21_Witness ==
  /\ discovery.runs = 2
  /\ discovery.kind = "tables"
  /\ Len(discovery.symbols) = 3
  /\ Len(discovery.catalog) = 2
  /\ EntryNames(discovery.previous) = {"user", "zone"}
  /\ EntryNames(discovery.catalog) = {"user", "zone"}
  /\ \A i \in 1..3 : ~SymbolFails(discovery.symbols[i]) =>
         CacheHas(typeCache, safeStringify(discovery.symbols[i].type))

\* ---- C23
\* onError of the subscription of an open session ran in this step.
SubscriptionErrored ==
  \E s \in AttemptIds :
    /\ sessions[s].st = "open" /\ sessions'[s].st = "open"
    /\ sessions[s].sub = "pending" /\ sessions'[s].sub = "none"

\* setupSubscriptions(conn) of an open session threw while it built the
\* subscription: its timer is gone and no subscription was made.
SubscriptionBuildThrew ==
  \E tm \in timers :
    /\ tm.kind = "settle"
    /\ timers' = timers \ {tm}
    /\ sessions[tm.by].st = "open"
    /\ sessions' = sessions

\* C23: a failure of the subscription setup, reported by onError or thrown
\* while the subscription is built, sets the status to error and records a
\* message of the subscription; the session keeps no other status.
C23_SubscriptionFailureSurfaces ==
  [][(SubscriptionErrored \/ SubscriptionBuildThrew) =>
       /\ connectionStatus' = "error"
       /\ error' # ErrNone
       /\ error'.kind \in {"subscription", "setup"}
       /\ error'.msg \in ErrorMessages]_vars

\* onError fired for the session the store holds: the status is error.
C23_Witness ==
  /\ connectionStatus = "error"
  /\ error.kind = "subscription"
  /\ connection # 0
  /\ sessions[connection].st = "open"
  /\ sessions[connection].sub = "none"

\* ---- C24
\* C24: disconnect() tears a session down only when the status is
\* connected; under any other status it changes nothing.
C24_DisconnectOnlyWhenConnected ==
  [][DisconnectRan => connectionStatus = "connected"]_vars

\* ---- C26
\* C26: while the status is disconnected the connection handle is null and
\* no mirror holds a row.
C26_DisconnectedIsEmpty ==
  connectionStatus = "disconnected" =>
    /\ connection = 0
    /\ \A t \in TableNames : tables[t].rows = <<>>

\* ---- C27
Live == {s \in AttemptIds : sessions[s].st \in {"handshaking", "open"}}

\* C27: at most one session is open or being opened, and isConnecting is
\* true exactly while the status is connecting.
C27_SingleSession ==
  /\ Cardinality(Live) <= 1
  /\ isConnecting <=> connectionStatus = "connecting"

\* ---- C28
\* s was replaced: a later attempt is awaiting its handshake or is open.
Superseded(s) == \E r \in AttemptIds : r > s /\ sessions[r].st \in {"handshaking", "open"}

\* onConnect, onConnectError or onDisconnect of session s ran in this step.
CallbackOf(s) ==
  \/ sessions[s].st = "handshaking" /\ sessions'[s].st \in {"open", "ended", "suppressed"}
  \/ sessions[s].st \in {"open", "closing"} /\ sessions'[s].st = "ended"

\* C28: the callbacks of a superseded session leave the status, the
\* connection handle, isConnecting and the mirror of the current session
\* alone.
C28_SupersededCallbacksInert ==
  [][\A s \in AttemptIds :
       (Superseded(s) /\ CallbackOf(s)) =>
         UNCHANGED <<connectionStatus, connection, isConnecting, tables>>]_vars

\* ---- C30
\* The 1-based index of the first row of rows whose key equals primaryValue,
\* 0 when there is none.
FirstWithKey(rows, primaryValue) ==
  IF \E i \in 1..Len(rows) : rows[i].id = primaryValue
    THEN CHOOSE i \in 1..Len(rows) :
           /\ rows[i].id = primaryValue
           /\ \A j \in 1..(i - 1) : rows[j].id # primaryValue
    ELSE 0

\* What the row operations may do to the mirror tb when they address the
\* key primaryValue of table t: after is the mirror they return.
UpdateFrame(tb, t, primaryValue, row, after) ==
  LET i == FirstWithKey(tb[t].rows, primaryValue)
  IN IF tb[t].present /\ i > 0
       THEN after = [tb EXCEPT ![t].rows[i] = row]
       ELSE after = tb

DeleteFrame(tb, t, primaryValue, after) ==
  LET i == FirstWithKey(tb[t].rows, primaryValue)
  IN IF tb[t].present /\ i > 0
       THEN after = [tb EXCEPT ![t].rows = RemoveAt(@, i)]
       ELSE after = tb

\* C30: updateTableRow and deleteTableRow change only the first row of the
\* named table whose primary-key value equals the given value and nothing
\* when there is no such row or the table is uninitialised; insertTableRow
\* into an uninitialised table changes nothing.
C30_RowOperationFrame ==
  \A t \in TableNames, primaryValue \in MirrorIds, row \in MirrorRows :
    /\ UpdateFrame(tables, t, primaryValue, row,
                   updateTableRow(tables, t, PrimaryKeyOf(t), primaryValue, row))
    /\ DeleteFrame(tables, t, primaryValue,
                   deleteTableRow(tables, t, PrimaryKeyOf(t), primaryValue))
    /\ ~tables[t].present => insertTableRow(tables, t, row) = tables

\* ---- C29
\* The retries have stopped after maxRetries + 1 attempts.
Stopped ==
  /\ connectionStatus = "error"
  /\ error.kind = "terminal"
  /\ error.msg \in RetryMessages
  /\ timers = {}
  /\ nextId = maxRetries + 1
  /\ \A s \in AttemptIds : sessions[s].st # "handshaking"

\* C29: against a backend that refuses every handshake, one connect() makes
\* the attempts numbered 0..maxRetries, one after the other, and then stops
\* for good: the status is error, the terminal message is recorded and no
\* retry timer is pending.
C29_RetriesTerminate ==
  /\ <>[]Stopped
  /\ [][ConnectPassed => CallRetryCount = nextId /\ nextId <= maxRetries]_vars

\* The last attempt was refused after the first one threw while opening.
C29_Witness ==
  /\ Stopped
  /\ error.msg = "F"
  /\ \A s \in 1..(maxRetries + 1) : sessions[s].st = "ended"

\* ---- C22
SetupFails(t) == attach.outcome[t] \in {"handleThrows", "iterThrows", "registerThrows"}

\* C22: when setting up a table fails during the attach, the failure is
\* caught and logged, and every other table of the catalog whose handle
\* works is seeded from its handle and has its handlers registered.
C22_TableFailureIsolated ==
  attach.phase = "attached" =>
    /\ ~attach.raised
    /\ \A t \in TableNames :
         /\ SetupFails(t) => t \in attach.logged /\ t \notin attach.registered
         /\ attach.outcome[t] = "ok" =>
              /\ t \in attach.registered
              /\ tables[t] = Table(processTableDataForRedux(handleRows[1][t]))

\* The first table of the catalog failed and the second one is attached.
C22_Witness ==
  /\ attach.phase = "attached"
  /\ attach.outcome["auth_event"] = "iterThrows"
  /\ attach.outcome["user"] = "ok"
  /\ attach.logged = {"auth_event"}
  /\ attach.registered = {"user"}
  /\ ~tables["auth_event"].present
  /\ Len(tables["user"].rows) = 1
  /\ attach.last.table = "user"

\* ---- C25
\* A notification of the attached session is handled in this step.
AttachNotified ==
  /\ attach.phase = "attached" /\ attach'.phase = "attached"
  /\ handleRows'[1] # handleRows[1]

\* The names the host registers its callbacks under.
HostName(t, kind) ==
  CASE t = "user" /\ kind = "insert" -> "onUserInsert"
    [] t = "user" /\ kind = "update" -> "onUserUpdate"
    [] t = "user" /\ kind = "delete" -> "onUserDelete"
    [] t = "auth_event" /\ kind = "insert" -> "onAuthEventInsert"
    [] t = "auth_event" /\ kind = "update" -> "onAuthEventUpdate"
    [] OTHER -> "onAuthEventDelete"

====
